---------------------------- MODULE Spec2Model ----------------------------
(***************************************************************************)
(* A model of one interactive session over the notebook ML1-Student.ipynb  *)
(* (bioscience-project): principal component analysis and one-versus-rest  *)
(* ROC evaluation of the liver-toxicity dataset.                           *)
(*                                                                         *)
(* The notebook has 24 code cells.  Only the first one (the imports) holds *)
(* statements; each of the others holds the comment that states the cell's *)
(* task, to be completed by the learner.  The model takes the operation of *)
(* such a cell from that comment and from the markdown cell that precedes  *)
(* it: one statement per task the comment names, in the comment's order,   *)
(* written with the pandas / NumPy / scikit-learn call the markdown names. *)
(* The kernel is the python3 kernel the notebook's metadata names: it runs *)
(* one cell at a time, statement by statement, and an exception ends the   *)
(* cell.  The learner works down the notebook; a cell is either run or     *)
(* skipped.                                                                *)
(***************************************************************************)
EXTENDS Integers, Sequences, FiniteSets, TLC

VARIABLES
    env,        \* the Python environment: what its libraries provide
    disk,       \* the files of the working directory: name -> content
    ns,         \* the kernel's namespace: name -> value
    queue,      \* cells submitted to the kernel and not yet started
    running,    \* cells the kernel is executing
    pc,         \* per cell: the statement it executes next (0: not running)
    status,     \* per cell: "none", "ok" or the exception that ended it
    count,      \* per cell: its execution number, 0 while it has none
    execCount,  \* the kernel's execution counter
    display,    \* the outputs rendered in the notebook, in order
    opened,     \* names of the files the cells have tried to open
    cursor,     \* the learner's position: the next cell to run or skip
    skips,      \* cells the learner has skipped
    ended,      \* the session has ended
    snap,       \* history: the names bound when the last started cell started
    last        \* history: the cell that finished last (0: none)

vars == <<env, disk, ns, queue, running, pc, status, count, execCount, display,
          opened, cursor, skips, ended, snap, last>>

----------------------------------------------------------------------------
(* Bounds of the model *)

MaxSkips == 1

MaxQueue == 1

\* Gene columns the model carries (the dataset has 3,116).
MaxGenes == 2

\* Principal components the model's PCA computes (scikit-learn computes
\* min(subjects, genes) of them).
MaxComponents == 5

----------------------------------------------------------------------------
(* The dataset, as the notebook describes it *)

NumSubjects == 64

NumComponents == 4

ToxicThreshold == 150

Doses == <<50, 150, 1500, 2000>>

Times == <<6, 18, 24, 48>>

GenesFile == "genes.csv"

TreatmentFile == "treatment.csv"

DatasetFiles == {"gene.csv", "clinic.csv", "treatment.csv", "gene.ID"}

Rows == 1 .. NumSubjects

\* The test-subject ID number of the subject on row p of the data files.
SubjectAt(p) == 200 + p

SeqRange(s) == {s[i] : i \in DOMAIN s}

Permutations4(s) ==
    {q \in [1 .. 4 -> SeqRange(s)] : \A i, j \in 1 .. 4 : i # j => q[i] # q[j]}

\* The orders in which the four times may first appear in treatment.csv:
\* every first and every last time, the two between them ascending.
TimeOrders == {q \in Permutations4(Times) : q[2] < q[3]}

\* The treatment of the subject on row p: four subjects for each pair of a
\* dose and a time; within a dose the times appear in the order `order`.
DoseAt(p) == Doses[(((p - 1) \div 16) % 4) + 1]

TimeAt(order, p) == order[(((p - 1) \div 4) % 4) + 1]

DoseOf(s) == DoseAt(s - 200)

TimeOf(order, s) == TimeAt(order, s - 200)

----------------------------------------------------------------------------
(* Values of the namespace *)

Unbound == [kind |-> "unbound"]

Names == {"libs", "interp", "plt", "genes", "pca", "pca_data", "pca_df", "treatment",
          "X", "y", "clf", "times", "time_dict"}

IsBound(n) == ns[n].kind # "unbound"

BoundNames == {n \in Names : IsBound(n)}

\* A DataFrame: its index labels, its column labels in order, and its rows,
\* each a function from the column labels.  NaN marks a missing cell.
NaN == -1

Frame(index, cols, rows) ==
    [kind |-> "table", index |-> index, cols |-> cols, rows |-> rows]

RangeIndex == [p \in Rows |-> p - 1]

HasCols(t, cs) == t.kind = "table" /\ cs \subseteq SeqRange(t.cols)

----------------------------------------------------------------------------
(* The library calls the cells make *)

GeneNames == <<"g1", "g2", "g3", "g4", "g5", "g6">>

GeneCols == SubSeq(GeneNames, 1, MaxGenes)

TreatmentCols == <<"ID", "Treatment", "Dose_Group", "Time_Group">>

DefaultCols == <<"0", "1", "2", "3">>

PCNames == <<"c1", "c2", "c3", "c4">>

\* pandas.read_csv on the content of a data file.
ReadCsv(content) ==
    IF content.kind = "genes"
    THEN Frame(RangeIndex, <<"ID">> \o GeneCols,
               [p \in Rows |->
                   [c \in {"ID"} \cup SeqRange(GeneCols) |->
                       IF c = "ID" THEN SubjectAt(p)
                       ELSE <<"x", SubjectAt(p), c>>]])
    ELSE Frame(RangeIndex, TreatmentCols,
               [p \in Rows |->
                   ("ID" :> SubjectAt(p)) @@
                   ("Treatment" :> DoseAt(p)) @@
                   ("Dose_Group" :> DoseAt(p)) @@
                   ("Time_Group" :> TimeAt(content.order, p))])

\* PCA().fit_transform(genes): one row of scores per row of the table, in
\* the table's row order; score i of a subject is written <<"pc", s, i>>.
FitTransform(genes) ==
    [kind |-> "array",
     rows |-> [p \in DOMAIN genes.rows |->
                  [i \in 1 .. MaxComponents |-> <<"pc", genes.rows[p]["ID"], i>>]]]

\* pandas.DataFrame(pca_data[:, 1:5]): four components from the second on.
FirstComponentsFromSecond(arr) ==
    Frame([p \in DOMAIN arr.rows |-> p - 1], DefaultCols,
          [p \in DOMAIN arr.rows |->
              [c \in SeqRange(DefaultCols) |->
                  arr.rows[p][(CHOOSE i \in 1 .. NumComponents : DefaultCols[i] = c) + 1]]])

\* pandas.DataFrame(pca_data[:, :4]): the first four components, default
\* column labels, default index.
FirstComponents(arr) ==
    Frame([p \in DOMAIN arr.rows |-> p - 1], DefaultCols,
          [p \in DOMAIN arr.rows |->
              [c \in SeqRange(DefaultCols) |->
                  arr.rows[p][CHOOSE i \in 1 .. NumComponents : DefaultCols[i] = c]]])

\* DataFrame.rename(columns = {old[i]: new[i]}).
Renamed(l, old, new) ==
    IF \E i \in DOMAIN old : old[i] = l
    THEN new[CHOOSE i \in DOMAIN old : old[i] = l]
    ELSE l

RenameColumns(t, old, new) ==
    Frame(t.index,
          [i \in DOMAIN t.cols |-> Renamed(t.cols[i], old, new)],
          [p \in DOMAIN t.rows |->
              [c \in {Renamed(l, old, new) : l \in SeqRange(t.cols)} |->
                  t.rows[p][CHOOSE l \in SeqRange(t.cols) : Renamed(l, old, new) = c]]])

\* The row of the right table that a left row joins, by index label
\* (0: none).
Match(label, right) ==
    IF \E q \in DOMAIN right.index : right.index[q] = label
    THEN CHOOSE q \in DOMAIN right.index : right.index[q] = label
    ELSE 0

\* DataFrame.set_index on a column of another table, taken by position.
SetIndex(t, other, col) ==
    Frame([p \in DOMAIN t.rows |-> other.rows[p][col]], t.cols, t.rows)

\* The join made after the right table is indexed by test-subject ID: no
\* label of the left table's default index is found in it.
JoinColsOnSubjectIndex(left, right, cols) ==
    Frame(left.index, left.cols \o cols,
          [p \in DOMAIN left.rows |->
              left.rows[p] @@
              [c \in SeqRange(cols) |->
                  IF Match(left.index[p], SetIndex(right, right, "ID")) = 0 THEN NaN
                  ELSE right.rows[Match(left.index[p], SetIndex(right, right, "ID"))][c]]])

\* left.join(right[cols]): a left join on the index.
JoinCols(left, right, cols) ==
    Frame(left.index, left.cols \o cols,
          [p \in DOMAIN left.rows |->
              left.rows[p] @@
              [c \in SeqRange(cols) |->
                  IF Match(left.index[p], right) = 0 THEN NaN
                  ELSE right.rows[Match(left.index[p], right)][c]]])

\* table[col] = values: a new last column, or new values for an old one.
WithColumn(t, col, values) ==
    Frame(t.index,
          IF col \in SeqRange(t.cols) THEN t.cols ELSE Append(t.cols, col),
          [p \in DOMAIN t.rows |-> (col :> values[p]) @@ t.rows[p]])

\* table.iloc[:, 1:]: every column but the first.
DropFirstColumn(t) ==
    Frame(t.index, Tail(t.cols),
          [p \in DOMAIN t.rows |-> [c \in SeqRange(Tail(t.cols)) |-> t.rows[p][c]]])

\* table[col]: one column, as a Series.
Column(t, col) ==
    [kind |-> "series", name |-> col, index |-> t.index,
     values |-> [p \in DOMAIN t.rows |-> t.rows[p][col]]]

\* Series.unique(): the distinct values in order of first appearance.
Unique(vals) ==
    LET U == SeqRange(vals)
        First(v) == CHOOSE i \in DOMAIN vals :
                        vals[i] = v /\ \A j \in 1 .. i - 1 : vals[j] # v
        Rank(v) == Cardinality({u \in U : First(u) <= First(v)})
    IN  [j \in 1 .. Cardinality(U) |-> CHOOSE v \in U : Rank(v) = j]

\* numpy.unique / sorted(set(...)): the distinct values in ascending order.
RECURSIVE Ascending(_)
Ascending(S) ==
    IF S = {} THEN <<>>
    ELSE LET m == CHOOSE x \in S : \A z \in S : x <= z
         IN  <<m>> \o Ascending(S \ {m})

\* The list of unique times, made either way.
UniqueTimes(series, how) ==
    IF how = "appearance" THEN Unique(series.values)
    ELSE Ascending(SeqRange(series.values))

\* The flag with 150 mg/kg itself on the toxic side.
ToxicFlagBelow(dose) == IF dose < ToxicThreshold THEN 0 ELSE 1

\* numpy.where(dose <= 150, 0, 1): 0 flags a dosage that is not toxic.
ToxicFlag(dose) == IF dose <= ToxicThreshold THEN 0 ELSE 1

\* The dictionary numbered 0, 1, 2, 3.
ConsecutiveNumbers(times) ==
    [t \in SeqRange(times) |-> (CHOOSE i \in DOMAIN times : times[i] = t) - 1]

\* {t: 2 * i for i, t in enumerate(times)}: an even number for each time.
EvenNumbers(times) ==
    [t \in SeqRange(times) |-> 2 * ((CHOOSE i \in DOMAIN times : times[i] = t) - 1)]

\* treatment["Time.Group"].map(time_dict) + treatment["Toxic"], for one row;
\* Series.map gives NaN for a time the dictionary does not hold.
GroupOf(row, time_dict) ==
    IF row["Time_Group"] \in DOMAIN time_dict
    THEN time_dict[row["Time_Group"]] + row["Toxic"]
    ELSE NaN

----------------------------------------------------------------------------
(* The code cells, numbered in notebook order *)

NumCells == 24

Cells == 1 .. NumCells

\* Statements of a cell.
NStmts(c) ==
    CASE c = 1 -> 4
      [] c = 3 -> 3
      [] c \in {9, 16, 20, 22} -> 2
      [] c = 15 -> 3
      [] OTHER -> 1

\* The names a statement reads; an unbound one raises NameError.
Reads(c, k) ==
    CASE c = 1 -> IF k = 4 THEN {"plt"} ELSE {}
      [] c = 2 -> {"libs"}
      [] c = 3 -> IF k = 1 THEN {"libs"}
                  ELSE IF k = 2 THEN {"pca", "genes"}
                  ELSE {"plt", "pca"}
      [] c \in {4, 5} -> {"pca"}
      [] c = 6 -> {"libs", "pca_data"}
      [] c = 7 -> {"pca_df"}
      [] c = 8 -> {"libs"}
      [] c = 9 -> {"pca_df", "treatment"}
      [] c \in 10 .. 14 -> {"plt", "pca_df"}
      [] c = 15 -> IF k = 1 THEN {"genes"}
                   ELSE IF k = 2 THEN {"treatment"}
                   ELSE {"libs", "interp", "plt", "X", "y"}
      [] c = 16 -> IF k = 1 THEN {"treatment"}
                   ELSE {"libs", "interp", "plt", "X", "y"}
      [] c \in {17, 18} -> {"libs", "X", "y"}
      [] c = 19 -> {"libs", "treatment"}
      [] c = 20 -> IF k = 1 THEN {"treatment"} ELSE {"times"}
      [] c = 21 -> {"treatment", "time_dict"}
      [] c = 22 -> IF k = 1 THEN {"treatment"}
                   ELSE {"libs", "interp", "plt", "X", "y"}
      [] OTHER -> {"clf", "X"}

\* The names the statements of a cell bind.
Produces(c) ==
    CASE c = 1 -> {"libs", "interp", "plt"}
      [] c = 2 -> {"genes"}
      [] c = 3 -> {"pca", "pca_data"}
      [] c \in {6, 7, 9} -> {"pca_df"}
      [] c \in {8, 19, 21} -> {"treatment"}
      [] c = 15 -> {"X", "y", "clf"}
      [] c \in {16, 22} -> {"y", "clf"}
      [] c \in {17, 18} -> {"clf"}
      [] c = 20 -> {"times", "time_dict"}
      [] OTHER -> {}

\* A response column that only a later cell creates.
LaterResponse == "Group"

\* The response of the second run of the ROC curves.
SecondResponse == "Dose_Group"

\* The table and the columns of it a statement reads; a missing column
\* raises KeyError.
ReadsCols(c, k) ==
    CASE c = 9 /\ k = 1 -> <<"treatment", {"Dose_Group", "Time_Group"}>>
      [] c = 9 /\ k = 2 -> <<"treatment", {"ID"}>>
      [] c = 10 -> <<"pca_df", {"c1", "c2", "Dose_Group"}>>
      [] c = 11 -> <<"pca_df", {"c1", "c2", "Time_Group"}>>
      [] c = 12 -> <<"pca_df", {"c1", "c2", "c3", "Dose_Group"}>>
      [] c = 13 -> <<"pca_df", {"c1", "c2", "c3", "Dose_Group", "Time_Group"}>>
      [] c = 14 -> <<"pca_df", {"c1", "c2", "Dose_Group", "Time_Group"}>>
      [] c = 15 /\ k = 2 -> <<"treatment", {"Dose_Group"}>>
      [] c = 16 /\ k = 1 -> <<"treatment", {SecondResponse}>>
      [] c = 19 -> <<"treatment", {"Dose_Group"}>>
      [] c = 20 /\ k = 1 -> <<"treatment", {"Time_Group"}>>
      [] c = 21 -> <<"treatment", {"Time_Group", "Toxic"}>>
      [] c = 22 /\ k = 1 -> <<"treatment", {"Group"}>>
      [] OTHER -> <<"", {}>>

\* The statements that read explained_variance_ratio_, which only a fitted
\* PCA object has; on another one the read raises AttributeError.
ReadsFitted(c, k) == (c = 3 /\ k = 3) \/ c \in {4, 5}

\* The files opened when the cell that prints the explained variance also
\* loads the clinical measurements.
OpensClinic(c, k) ==
    CASE c = 2 -> GenesFile
      [] c = 4 -> "clinic.csv"
      [] c = 8 -> TreatmentFile
      [] OTHER -> ""

\* The file a statement opens ("": none); a missing one raises
\* FileNotFoundError.
Opens(c, k) ==
    CASE c = 2 -> GenesFile
      [] c = 8 -> TreatmentFile
      [] OTHER -> ""

\* The choices the task of a statement leaves to the learner.
Options(c, k) ==
    CASE c = 9 /\ k = 2 -> {"set_index", "keep_index"}
      [] c = 20 /\ k = 1 -> {"appearance", "sorted"}
      [] OTHER -> {"-"}

\* The exception a statement raises in namespace n, with the files d and
\* the environment e ("": none).
ErrorOf(c, k, n, d, e) ==
    IF \E r \in Reads(c, k) : n[r].kind = "unbound" THEN "NameError"
    ELSE IF c = 1 /\ k = 2 /\ ~e.interp THEN "ImportError"
    ELSE IF Opens(c, k) # "" /\ Opens(c, k) \notin DOMAIN d THEN "FileNotFoundError"
    ELSE IF ReadsCols(c, k)[1] # "" /\ ~HasCols(n[ReadsCols(c, k)[1]], ReadsCols(c, k)[2])
         THEN "KeyError"
    ELSE IF ReadsFitted(c, k) /\ ~n["pca"].fitted THEN "AttributeError"
    ELSE ""

Errors == {"NameError", "ImportError", "FileNotFoundError", "KeyError",
           "AttributeError"}

\* The classes of a response: its distinct values in ascending order
\* (classes_ of the classifier, numpy.unique).
Classes(y) == Ascending(SeqRange(y.values))

\* The indicator columns without the one of the first class.
BinarizeDropFirst(values, classes) ==
    [p \in DOMAIN values |->
        [i \in 1 .. Len(classes) - 1 |-> IF values[p] = classes[i + 1] THEN 1 ELSE 0]]

\* label_binarize(y, classes): one indicator column per class, column i
\* for classes[i]; a response of two classes gets a single column.
Binarize(values, classes) ==
    IF Len(classes) = 2
    THEN [p \in DOMAIN values |-> <<IF values[p] = classes[2] THEN 1 ELSE 0>>]
    ELSE [p \in DOMAIN values |->
             [i \in DOMAIN classes |-> IF values[p] = classes[i] THEN 1 ELSE 0]]

\* The number of columns of a binarised response.
Width(Y) == IF DOMAIN Y = {} THEN 0 ELSE Len(Y[CHOOSE p \in DOMAIN Y : TRUE])

\* The coefficients a fit can give, in hundredths: -0.20, 0.15 and 0.16.
CoefValues == <<-20, 15, 16>>

\* The threshold of the final task, 0.15, in hundredths.
CoefThreshold == 15

\* The fit is a function of the data: coefficient j of the estimator of
\* column i, for gene data of the given effect.
Coef(effect, i, j) == CoefValues[((effect + i + j) % 3) + 1]

\* A fitted one-versus-rest classifier: one binary estimator for each column
\* of the binarised response, and in coef_ one row for each estimator with
\* one coefficient for each column of the predictors.
Fitted(algo, X, y, effect) ==
    [kind |-> "model", algo |-> algo, response |-> y.name,
     classes |-> Classes(y),
     binarised |-> Binarize(y.values, Classes(y)),
     estimators |-> [i \in 1 .. Width(Binarize(y.values, Classes(y))) |->
                        [column |-> i, algo |-> algo]],
     coef |-> [i \in 1 .. Width(Binarize(y.values, Classes(y))) |->
                  [j \in DOMAIN X.cols |-> Coef(effect, i, j)]]]

\* The names printed when the coefficients are numbered along the columns
\* of the genes DataFrame, its first column included.
PrintedGenesByGenesColumns(n, row) ==
    {n["genes"].cols[j] : j \in {i \in DOMAIN n["clf"].coef[row] :
                                    n["clf"].coef[row][i] > CoefThreshold}}

\* X.columns[clf.coef_[row] > 0.15]: the names of the predictors whose
\* coefficient in the row is above the threshold.
PrintedGenes(n, row) ==
    {n["X"].cols[j] : j \in {i \in DOMAIN n["clf"].coef[row] :
                                n["clf"].coef[row][i] > CoefThreshold}}

\* The ROC curves of a response: for i in range(n_classes), the curve
\* "class i" from column i of the binarised response, and the micro- and
\* macro-average curves.
RocCurves(y) ==
    [response |-> y.name,
     perClass |-> [i \in 1 .. Width(Binarize(y.values, Classes(y))) |->
                      [class |-> i - 1, column |-> i]],
     averages |-> {"micro", "macro"}]

NoCurves == [response |-> "", perClass |-> <<>>, averages |-> {}]

\* The namespace after a statement that raises nothing.
Bind(c, k, opt, n, d) ==
    CASE c = 1 /\ k = 1 -> [n EXCEPT !["libs"] = [kind |-> "modules"]]
      [] c = 1 /\ k = 2 -> [n EXCEPT !["interp"] = [kind |-> "function"]]
      [] c = 1 /\ k = 3 -> [n EXCEPT !["plt"] = [kind |-> "pyplot", inline |-> FALSE]]
      [] c = 1 /\ k = 4 -> [n EXCEPT !["plt"] = [kind |-> "pyplot", inline |-> TRUE]]
      [] c = 2 -> [n EXCEPT !["genes"] = ReadCsv(d[GenesFile])]
      [] c = 3 /\ k = 1 -> [n EXCEPT !["pca"] = [kind |-> "pca", fitted |-> FALSE]]
      [] c = 3 /\ k = 2 ->
            [n EXCEPT !["pca"] = [kind |-> "pca", fitted |-> TRUE],
                      !["pca_data"] = FitTransform(n["genes"])]
      [] c = 6 -> [n EXCEPT !["pca_df"] = FirstComponents(n["pca_data"])]
      [] c = 7 -> [n EXCEPT !["pca_df"] = RenameColumns(n["pca_df"], DefaultCols, PCNames)]
      [] c = 8 -> [n EXCEPT !["treatment"] = ReadCsv(d[TreatmentFile])]
      [] c = 9 /\ k = 1 ->
            [n EXCEPT !["pca_df"] =
                JoinCols(n["pca_df"], n["treatment"], <<"Dose_Group", "Time_Group">>)]
      [] c = 9 /\ k = 2 /\ opt = "set_index" ->
            [n EXCEPT !["pca_df"] = SetIndex(n["pca_df"], n["treatment"], "ID")]
      [] c = 15 /\ k = 1 -> [n EXCEPT !["X"] = DropFirstColumn(n["genes"])]
      [] c = 15 /\ k = 2 -> [n EXCEPT !["y"] = Column(n["treatment"], "Dose_Group")]
      [] c = 15 /\ k = 3 -> [n EXCEPT !["clf"] = Fitted("svm", n["X"], n["y"], d[GenesFile].effect)]
      [] c = 16 /\ k = 1 -> [n EXCEPT !["y"] = Column(n["treatment"], SecondResponse)]
      [] c = 16 /\ k = 2 -> [n EXCEPT !["clf"] = Fitted("logistic", n["X"], n["y"], d[GenesFile].effect)]
      [] c = 17 -> [n EXCEPT !["clf"] = Fitted("logistic", n["X"], n["y"], d[GenesFile].effect)]
      [] c = 18 -> [n EXCEPT !["clf"] = Fitted("svm", n["X"], n["y"], d[GenesFile].effect)]
      [] c = 19 ->
            [n EXCEPT !["treatment"] =
                WithColumn(n["treatment"], "Toxic",
                           [p \in DOMAIN n["treatment"].rows |->
                               ToxicFlag(n["treatment"].rows[p]["Dose_Group"])])]
      [] c = 20 /\ k = 1 ->
            [n EXCEPT !["times"] =
                [kind |-> "list",
                 items |-> UniqueTimes(Column(n["treatment"], "Time_Group"), opt)]]
      [] c = 20 /\ k = 2 ->
            [n EXCEPT !["time_dict"] =
                [kind |-> "dict", map |-> EvenNumbers(n["times"].items)]]
      [] c = 21 ->
            [n EXCEPT !["treatment"] =
                WithColumn(n["treatment"], "Group",
                           [p \in DOMAIN n["treatment"].rows |->
                               GroupOf(n["treatment"].rows[p], n["time_dict"].map)])]
      [] c = 22 /\ k = 1 -> [n EXCEPT !["y"] = Column(n["treatment"], "Group")]
      [] c = 22 /\ k = 2 -> [n EXCEPT !["clf"] = Fitted("logistic", n["X"], n["y"], d[GenesFile].effect)]
      [] OTHER -> n

\* What a statement puts out, and where: a figure goes to the notebook
\* because of %matplotlib inline, a printed summary always does.
\* A figure saved to a file instead.
FigureToFile(n) == "disk"

FigureTo(n) == IF n["plt"].inline THEN "display" ELSE "window"

Output(c, k, n) ==
    CASE c = 3 /\ k = 3 ->
            <<[to |-> FigureTo(n), kind |-> "plot", cell |-> c, curves |-> NoCurves,
               names |-> {}]>>
      [] c \in 10 .. 14 ->
            <<[to |-> FigureTo(n), kind |-> "plot", cell |-> c, curves |-> NoCurves,
               names |-> {}]>>
      [] (c = 15 /\ k = 3) \/ (c \in {16, 22} /\ k = 2) ->
            <<[to |-> FigureTo(n), kind |-> "plot", cell |-> c,
               curves |-> RocCurves(n["y"]), names |-> {}]>>
      [] c \in {4, 5, 17, 18} ->
            <<[to |-> "display", kind |-> "print", cell |-> c, curves |-> NoCurves,
               names |-> {}]>>
      [] c = 23 ->
            <<[to |-> "display", kind |-> "print", cell |-> c, curves |-> NoCurves,
               names |-> PrintedGenes(n, 1)]>>
      [] c = 24 ->
            <<[to |-> "display", kind |-> "print", cell |-> c, curves |-> NoCurves,
               names |-> PrintedGenes(n, Len(n["clf"].coef))]>>
      [] OTHER -> <<>>

----------------------------------------------------------------------------
(* The session *)

RECURSIVE Sent(_, _)
Sent(outs, to) ==
    IF Len(outs) = 0 THEN <<>>
    ELSE IF Head(outs).to = to THEN <<Head(outs)>> \o Sent(Tail(outs), to)
    ELSE Sent(Tail(outs), to)

\* The working directory after the outputs sent to disk are written.
Written(d, outs) ==
    IF Len(Sent(outs, "disk")) = 0 THEN d
    ELSE ("output" :> [kind |-> "other"]) @@ d

\* The gene data sampled: one effect for each residue of the coefficients.
Effects == 0 .. 2

Content(f, order, effect) ==
    IF f \in {"gene.csv", "genes.csv"} THEN [kind |-> "genes", effect |-> effect]
    ELSE IF f = "treatment.csv" THEN [kind |-> "treatment", order |-> order]
    ELSE [kind |-> "other"]

Init ==
    /\ \E present \in SUBSET {GenesFile, TreatmentFile} :
       \E order \in TimeOrders :
       \E interp \in BOOLEAN :
       \E effect \in Effects :
          /\ GenesFile \notin present => order = Times
          /\ ~interp => (order = Times /\ present = {GenesFile, TreatmentFile})
          /\ effect # 0 => (order = Times /\ interp /\ present = {GenesFile, TreatmentFile})
          /\ env = [interp |-> interp]
          /\ disk = [f \in (DatasetFiles \ {TreatmentFile}) \cup present |->
                        Content(f, order, effect)]
    /\ ns = [n \in Names |-> Unbound]
    /\ queue = <<>>
    /\ running = {}
    /\ pc = [c \in Cells |-> 0]
    /\ status = [c \in Cells |-> "none"]
    /\ count = [c \in Cells |-> 0]
    /\ execCount = 0
    /\ display = <<>>
    /\ opened = {}
    /\ cursor = 1
    /\ skips = {}
    /\ ended = FALSE
    /\ snap = {}
    /\ last = 0

\* The learner runs the cell at the cursor: it is queued for the kernel.
Submit ==
    /\ ~ended
    /\ cursor <= NumCells
    /\ Len(queue) < MaxQueue
    /\ queue' = Append(queue, cursor)
    /\ cursor' = cursor + 1
    /\ UNCHANGED <<env, disk, ns, running, pc, status, count, execCount, display,
                   opened, skips, ended, snap, last>>

\* The learner passes over the cell at the cursor.
Skip ==
    /\ ~ended
    /\ cursor <= NumCells
    /\ Cardinality(skips) < MaxSkips
    /\ skips' = skips \cup {cursor}
    /\ cursor' = cursor + 1
    /\ UNCHANGED <<env, disk, ns, queue, running, pc, status, count, execCount,
                   display, opened, ended, snap, last>>

\* The kernel starts the next queued cell although a cell is running.
StartWhileBusy ==
    /\ ~ended
    /\ queue # <<>>
    /\ running' = running \cup {Head(queue)}
    /\ queue' = Tail(queue)
    /\ pc' = [pc EXCEPT ![Head(queue)] = 1]
    /\ snap' = BoundNames
    /\ UNCHANGED <<env, disk, ns, status, count, execCount, display, opened,
                   cursor, skips, ended, last>>

\* The idle kernel starts the next queued cell.
Start ==
    /\ ~ended
    /\ running = {}
    /\ queue # <<>>
    /\ running' = {Head(queue)}
    /\ queue' = Tail(queue)
    /\ pc' = [pc EXCEPT ![Head(queue)] = 1]
    /\ snap' = BoundNames
    /\ UNCHANGED <<env, disk, ns, status, count, execCount, display, opened,
                   cursor, skips, ended, last>>

\* A cell ends, with "ok" or with the exception: it gets its number.
Finish(c, st) ==
    /\ running' = running \ {c}
    /\ pc' = [pc EXCEPT ![c] = 0]
    /\ status' = [status EXCEPT ![c] = st]
    /\ execCount' = execCount + 1
    /\ count' = [count EXCEPT ![c] = execCount + 1]
    /\ last' = c

\* The exception is caught and the cell is queued to run again.
RaiseAndRetry(c, k, e) ==
    /\ ns' = ns
    /\ display' = display
    /\ disk' = disk
    /\ opened' = IF e = "FileNotFoundError" THEN opened \cup {Opens(c, k)} ELSE opened
    /\ queue' = <<c>> \o queue
    /\ Finish(c, e)

\* Statement k of cell c raises e: nothing is bound or put out, the cell
\* ends there, and nothing handles the exception.
Raise(c, k, e) ==
    /\ ns' = ns
    /\ display' = display
    /\ disk' = disk
    /\ opened' = IF e = "FileNotFoundError" THEN opened \cup {Opens(c, k)} ELSE opened
    /\ queue' = queue
    /\ Finish(c, e)

\* Statement k of cell c runs to its end.
Execute(c, k, opt) ==
    /\ ns' = Bind(c, k, opt, ns, disk)
    /\ display' = display \o Sent(Output(c, k, ns), "display")
    /\ disk' = Written(disk, Output(c, k, ns))
    /\ opened' = IF Opens(c, k) # "" THEN opened \cup {Opens(c, k)} ELSE opened
    /\ queue' = queue
    /\ IF k = NStmts(c)
       THEN Finish(c, "ok")
       ELSE /\ pc' = [pc EXCEPT ![c] = k + 1]
            /\ UNCHANGED <<running, status, count, execCount, last>>

\* The kernel executes the next statement of the running cell c.
Step(c) ==
    /\ ~ended
    /\ IF ErrorOf(c, pc[c], ns, disk, env) # ""
       THEN Raise(c, pc[c], ErrorOf(c, pc[c], ns, disk, env))
       ELSE \E opt \in Options(c, pc[c]) : Execute(c, pc[c], opt)
    /\ UNCHANGED <<env, cursor, skips, ended, snap>>

\* The session ends and the kernel's namespace is kept.
ShutdownKeepsTables ==
    /\ ~ended
    /\ running = {}
    /\ queue = <<>>
    /\ ended' = TRUE
    /\ UNCHANGED <<env, disk, ns, queue, running, pc, status, count, execCount,
                   display, opened, cursor, skips, snap, last>>

\* The session ends: the kernel's namespace is discarded.
Shutdown ==
    /\ ~ended
    /\ running = {}
    /\ queue = <<>>
    /\ ended' = TRUE
    /\ ns' = [n \in Names |-> Unbound]
    /\ UNCHANGED <<env, disk, queue, running, pc, status, count, execCount, display,
                   opened, cursor, skips, snap, last>>

ImportLibraries ==
    /\ 1 \in running
    /\ Step(1)

LoadGenes ==
    /\ 2 \in running
    /\ Step(2)

RunPCA ==
    /\ 3 \in running
    /\ Step(3)

PrintVarianceSum ==
    /\ 4 \in running
    /\ Step(4)

PrintVariance ==
    /\ 5 \in running
    /\ Step(5)

CreatePCADataFrame ==
    /\ 6 \in running
    /\ Step(6)

RenamePCAColumns ==
    /\ 7 \in running
    /\ Step(7)

LoadTreatment ==
    /\ 8 \in running
    /\ Step(8)

JoinTreatment ==
    /\ 9 \in running
    /\ Step(9)

ScatterByDose ==
    /\ 10 \in running
    /\ Step(10)

ScatterByTime ==
    /\ 11 \in running
    /\ Step(11)

Scatter3D ==
    /\ 12 \in running
    /\ Step(12)

Scatter3DSized ==
    /\ 13 \in running
    /\ Step(13)

ScatterGrid ==
    /\ 14 \in running
    /\ Step(14)

RocSvm ==
    /\ 15 \in running
    /\ Step(15)

RocLogistic ==
    /\ 16 \in running
    /\ Step(16)

OvrLogistic ==
    /\ 17 \in running
    /\ Step(17)

OvrSvm ==
    /\ 18 \in running
    /\ Step(18)

ToxicColumn ==
    /\ 19 \in running
    /\ Step(19)

TimeDict ==
    /\ 20 \in running
    /\ Step(20)

GroupColumn ==
    /\ 21 \in running
    /\ Step(21)

GroupClassifier ==
    /\ 22 \in running
    /\ Step(22)

PrintFirstCoefficients ==
    /\ 23 \in running
    /\ Step(23)

PrintLastCoefficients ==
    /\ 24 \in running
    /\ Step(24)

Next ==
    \/ Submit
    \/ Skip
    \/ Start
    \/ ImportLibraries
    \/ LoadGenes
    \/ RunPCA
    \/ PrintVarianceSum
    \/ PrintVariance
    \/ CreatePCADataFrame
    \/ RenamePCAColumns
    \/ LoadTreatment
    \/ JoinTreatment
    \/ ScatterByDose
    \/ ScatterByTime
    \/ Scatter3D
    \/ Scatter3DSized
    \/ ScatterGrid
    \/ RocSvm
    \/ RocLogistic
    \/ OvrLogistic
    \/ OvrSvm
    \/ ToxicColumn
    \/ TimeDict
    \/ GroupColumn
    \/ GroupClassifier
    \/ PrintFirstCoefficients
    \/ PrintLastCoefficients
    \/ Shutdown

Spec == Init /\ [][Next]_vars

----------------------------------------------------------------------------
(* Row alignment (C1) *)

\* Row p of the joined PCA DataFrame belongs to one subject: its four
\* scores are those of the subject s of its first score, and its dose group
\* and time group are the ones treatment.csv gives for s.
RowOfOneSubject(t, p) ==
    LET s == t.rows[p][t.cols[1]][2]
    IN  /\ \A i \in 1 .. NumComponents : t.rows[p][t.cols[i]] = <<"pc", s, i>>
        /\ t.rows[p]["Dose_Group"] = DoseOf(s)
        /\ t.rows[p]["Time_Group"] = TimeOf(disk[TreatmentFile].order, s)
        /\ t.index[p] \in {p - 1, s}

\* C1: in every state of the session the gene-expression table, the
\* treatment table and the PCA DataFrame (before and after the join) have
\* one row per subject, 64 in all, and every row of the joined PCA DataFrame
\* holds the scores, the dose group and the time group of one and the same
\* subject, also after the DataFrame is re-indexed by test-subject ID.
RowAlignment ==
    /\ \A n \in {"genes", "treatment", "pca_df", "pca_data"} :
           IsBound(n) => DOMAIN ns[n].rows = 1 .. 64
    /\ (IsBound("pca_df") /\ HasCols(ns["pca_df"], {"Dose_Group", "Time_Group"}))
           => \A p \in Rows : RowOfOneSubject(ns["pca_df"], p)

\* The joined PCA DataFrame, re-indexed by test-subject ID.
JoinedAndReindexed ==
    /\ IsBound("pca_df")
    /\ HasCols(ns["pca_df"], {"c1", "Dose_Group", "Time_Group"})
    /\ ns["pca_df"].index[1] = SubjectAt(1)
    /\ ns["pca_df"].rows[64]["Dose_Group"] = 2000

----------------------------------------------------------------------------
(* Notebook order (C2) *)

\* C2: a name is available in the idle kernel only after a cell that binds
\* it has been executed (has its number), and when the cells are run top to
\* bottom, none skipped, no import failing and no input file missing, no
\* cell reads a name, a fitted model or a column that no earlier cell has
\* produced: no cell ends with NameError, KeyError or AttributeError.
NotebookOrder ==
    /\ (running = {} /\ ~ended) =>
           \A n \in BoundNames : \E c \in Cells : n \in Produces(c) /\ count[c] > 0
    /\ (skips = {} /\ \A c \in Cells :
                          status[c] \notin {"ImportError", "FileNotFoundError"}) =>
           \A c \in Cells : status[c] \notin {"NameError", "KeyError", "AttributeError"}

\* The whole notebook has been run top to bottom and every cell ended well.
RanTopToBottom ==
    /\ skips = {}
    /\ \A c \in Cells : status[c] = "ok" /\ count[c] = c
    /\ Len(display) = 15

----------------------------------------------------------------------------
(* Failures (C3) *)

\* C3 as claimed: after a cell has failed, the session holds exactly the
\* names it held when the cell started: the cell has bound no partial
\* result.
FailedCellBindsNothing ==
    (running = {} /\ ~ended /\ last # 0 /\ status[last] \in Errors)
        => BoundNames = snap

\* C3, amended: a failure surfaces as the unhandled exception of the cell.
\* The statement that fails binds nothing and puts nothing out, the cell
\* stops at it, and no retry or recovery runs on its own; everything bound
\* before that statement, by earlier cells and by the failing cell's own
\* earlier statements, is left as it was.
FailureIsUnhandled ==
    [][\A c \in Cells :
          /\ (c \in running /\ status'[c] \in Errors) =>
                 /\ ns' = ns
                 /\ display' = display
                 /\ disk' = disk
                 /\ queue' = queue
                 /\ c \notin running'
                 /\ pc'[c] = 0
                 /\ count'[c] = execCount + 1
          /\ status'[c] \in Errors =>
                 c \notin running' /\ c \notin SeqRange(queue')]_vars

\* treatment.csv is missing: the cell that loads it has failed, and the cell
\* that selects predictors and response has failed after binding X.
FailedAfterBindingX ==
    /\ status[8] = "FileNotFoundError"
    /\ status[15] = "NameError"
    /\ IsBound("X")
    /\ "X" \notin snap
    /\ ~IsBound("treatment")

----------------------------------------------------------------------------
(* One cell at a time (C4) *)

\* C4: at most one cell is executing; a cell starts only when none is
\* executing; an executing cell leaves the kernel only by ending, with "ok"
\* or with its exception; and the namespace and the display change only in
\* a step of the executing cell (or when the session ends).
OneCellAtATime ==
    [][/\ Cardinality(running') <= 1
       /\ running' \ running # {} => running = {}
       /\ \A c \in running : c \in running' \/ status'[c] # "none"
       /\ ns' # ns => (ended' \/ \E c \in running : pc'[c] # pc[c])
       /\ display' # display => \E c \in running : pc'[c] # pc[c]]_vars

\* The PCA cell is at its second statement while the next cell waits.
CellRunsWhileNextWaits ==
    /\ running = {3}
    /\ pc[3] = 2
    /\ queue = <<4>>
    /\ IsBound("pca")

----------------------------------------------------------------------------
(* Nothing persisted (C5) *)

\* C5: no step changes the files on disk, and what the cells put out is
\* all on the display and is plots and printed summaries only.
NothingPersisted ==
    [][/\ disk' = disk
       /\ \A i \in DOMAIN display' : display'[i].kind \in {"plot", "print"}
       /\ \A c \in running :
              (pc'[c] # pc[c] /\ ErrorOf(c, pc[c], ns, disk, env) = "")
                  => display' = display \o Output(c, pc[c], ns)]_vars

\* Both input files have been read, and plots and printed summaries shown.
PlotsAndSummariesShown ==
    /\ opened = {GenesFile, TreatmentFile}
    /\ status[2] = "ok" /\ status[8] = "ok"
    /\ \E i, j \in DOMAIN display :
           display[i].kind = "plot" /\ display[j].kind = "print"

----------------------------------------------------------------------------
(* Input files (C6) *)

----------------------------------------------------------------------------
(* Lifecycle of the tables (C7) *)

\* What is transformed or plotted has been loaded, and nothing remains
\* once the session has ended.
LoadedBeforeUse ==
    /\ IsBound("pca_data") => status[2] = "ok"
    /\ IsBound("pca_df") => status[2] = "ok"
    /\ IsBound("X") => status[2] = "ok"
    /\ (IsBound("pca_df") /\ HasCols(ns["pca_df"], {"Dose_Group"})) => status[8] = "ok"
    /\ IsBound("y") => status[8] = "ok"
    /\ (IsBound("treatment") /\ ns["treatment"].cols # TreatmentCols) => status[8] = "ok"
    /\ \A i \in DOMAIN display :
           display[i].cell \in 10 .. 14 => (status[2] = "ok" /\ status[8] = "ok")
    /\ ended => (BoundNames = {} /\ running = {} /\ queue = <<>>)

\* C7: a table is transformed or plotted only after it has been loaded;
\* once the session has ended no table, model or derived column remains,
\* and nothing is loaded, transformed or shown again.
TableLifecycle ==
    [][LoadedBeforeUse' /\ (ended => UNCHANGED vars)]_vars

\* The session has ended after the tables were loaded, joined and plotted.
EndedAfterPlots ==
    /\ ended
    /\ status[9] = "ok"
    /\ \E i \in DOMAIN display : display[i].cell = 10

----------------------------------------------------------------------------
(* The eight groups (C8, C9) and the toxic flag (C10) *)

HasGroup == IsBound("treatment") /\ HasCols(ns["treatment"], {"Toxic", "Group"})

\* C8: the dictionary holds a distinct even number for each of the four
\* times, and Group = time_dict[Time.Group] + Toxic takes exactly the values
\* 0..7, two subjects having the same Group exactly when they have the same
\* time group and the same toxic flag.
GroupIsOneToOne ==
    HasGroup =>
        LET r == ns["treatment"].rows
            d == ns["time_dict"].map
        IN  /\ DOMAIN d = SeqRange(Times)
            /\ \A t \in DOMAIN d : d[t] % 2 = 0 /\ d[t] \in 0 .. 6
            /\ \A t, u \in DOMAIN d : d[t] = d[u] => t = u
            /\ {r[p]["Group"] : p \in Rows} = 0 .. 7
            /\ \A p, q \in Rows :
                   r[p]["Group"] = r[q]["Group"] <=>
                       (/\ r[p]["Time_Group"] = r[q]["Time_Group"]
                        /\ r[p]["Toxic"] = r[q]["Toxic"])

\* The Group column has been made.
GroupColumnMade ==
    /\ HasGroup
    /\ status[21] = "ok"
    /\ \E p, q \in Rows :
           ns["treatment"].rows[p]["Group"] = 0 /\ ns["treatment"].rows[q]["Group"] = 7

\* C9: class 0 is exactly the non-toxic subjects of the shortest
\* time (6 hours) and class 7 exactly the toxic subjects of the longest
\* (48 hours), whatever the order of the times in the table.
ClassZeroIsShortestTime ==
    HasGroup =>
        \A p \in Rows :
            LET row == ns["treatment"].rows[p]
            IN  /\ row["Group"] = 0 <=> (row["Toxic"] = 0 /\ row["Time_Group"] = 6)
                /\ row["Group"] = 7 <=> (row["Toxic"] = 1 /\ row["Time_Group"] = 48)

\* C10: the Toxic column is 0 or 1, and 0 exactly for a dosage at or below
\* 150 mg/kg: 0 for the 50 and 150 groups, 1 for the 1500 and 2000 groups;
\* the table keeps its 64 rows and its other columns keep their values.
ToxicIsBinaryAt150 ==
    (IsBound("treatment") /\ HasCols(ns["treatment"], {"Toxic"})) =>
        LET t == ns["treatment"]
        IN  /\ DOMAIN t.rows = 1 .. 64
            /\ SubSeq(t.cols, 1, 5) = TreatmentCols \o <<"Toxic">>
            /\ \A p \in Rows :
                   /\ t.rows[p]["Toxic"] \in {0, 1}
                   /\ t.rows[p]["Toxic"] = 0 <=> t.rows[p]["Dose_Group"] <= 150
                   /\ t.rows[p]["Dose_Group"] \in {50, 150} => t.rows[p]["Toxic"] = 0
                   /\ t.rows[p]["Dose_Group"] \in {1500, 2000} => t.rows[p]["Toxic"] = 1
                   /\ t.rows[p]["ID"] = SubjectAt(p)
                   /\ t.rows[p]["Treatment"] = DoseAt(p)
                   /\ t.rows[p]["Dose_Group"] = DoseAt(p)
                   /\ t.rows[p]["Time_Group"] = TimeAt(disk[TreatmentFile].order, p)

\* The Toxic column has just been made: a 150 mg/kg subject is flagged 0
\* and a 1500 mg/kg subject 1.
ToxicColumnMade ==
    /\ IsBound("treatment")
    /\ ns["treatment"].cols = TreatmentCols \o <<"Toxic">>
    /\ \E p, q \in Rows :
           /\ ns["treatment"].rows[p]["Dose_Group"] = 150
           /\ ns["treatment"].rows[p]["Toxic"] = 0
           /\ ns["treatment"].rows[q]["Dose_Group"] = 1500
           /\ ns["treatment"].rows[q]["Toxic"] = 1

----------------------------------------------------------------------------
(* One-versus-rest (C11) *)

\* The number of classes of a response column.
ClassCount(col) == IF col = "Group" THEN 8 ELSE 4

\* C11: one-versus-rest trains one binary classifier per class: for a
\* response of k classes (4 for Dose.Group and Time.Group, 8 for Group) the
\* binarised response has exactly k columns, every subject is positive in
\* the column of its own class and negative in the other k - 1, and exactly
\* k per-class ROC curves are plotted, curve i from column i, class i.
OneVersusRest ==
    /\ IsBound("clf") =>
           LET m == ns["clf"]
               k == ClassCount(m.response)
               truth == [p \in Rows |-> ns["treatment"].rows[p][m.response]]
           IN  /\ m.response \in {"Dose_Group", "Time_Group", "Group"}
               /\ Len(m.classes) = k
               /\ SeqRange(m.classes) = SeqRange(truth)
               /\ \A i \in 1 .. k - 1 : m.classes[i] < m.classes[i + 1]
               /\ Len(m.estimators) = k
               /\ \A i \in 1 .. k : m.estimators[i].column = i
               /\ DOMAIN m.binarised = Rows
               /\ \A p \in Rows :
                      /\ Len(m.binarised[p]) = k
                      /\ \A i \in 1 .. k :
                             /\ m.binarised[p][i] \in {0, 1}
                             /\ m.binarised[p][i] = 1 <=> m.classes[i] = truth[p]
                      /\ Cardinality({i \in 1 .. k : m.binarised[p][i] = 1}) = 1
    /\ \A j \in DOMAIN display :
           display[j].cell \in {15, 16, 22} =>
               LET r == display[j].curves
                   k == ClassCount(r.response)
               IN  /\ display[j].cell = 15 => r.response = "Dose_Group"
                   /\ display[j].cell = 16 => r.response \in {"Dose_Group", "Time_Group"}
                   /\ display[j].cell = 22 => r.response = "Group"
                   /\ Len(r.perClass) = k
                   /\ \A i \in 1 .. k :
                          r.perClass[i].class = i - 1 /\ r.perClass[i].column = i

\* The eight-class classifier has been fitted and its eight curves shown.
EightCurvesShown ==
    /\ IsBound("clf")
    /\ ns["clf"].response = "Group"
    /\ Len(ns["clf"].estimators) = 8
    /\ \E j \in DOMAIN display :
           display[j].cell = 22 /\ Len(display[j].curves.perClass) = 8
    /\ \E j \in DOMAIN display :
           display[j].cell = 15 /\ Len(display[j].curves.perClass) = 4

----------------------------------------------------------------------------
(* The second run of the ROC curves (C12) *)

\* C12: the ROC curves are made a second time with logistic regression,
\* with the predictors of the first run, unmodified, and with Time.Group as
\* the response rather than Dose.Group.
SecondRunOnTimeGroup ==
    \A j \in DOMAIN display :
        display[j].cell = 16 =>
            /\ display[j].curves.response = "Time_Group"
            /\ (last = 16 /\ IsBound("clf")) =>
                   /\ ns["clf"].algo = "logistic"
                   /\ ns["clf"].response = "Time_Group"
            /\ (IsBound("X") /\ IsBound("genes")) =>
                   ns["X"] = DropFirstColumn(ns["genes"])

----------------------------------------------------------------------------
(* The genes printed (C13) *)

\* The names printed by the cell, for the row of coef_ it reads, are the
\* genes whose coefficient there is above 0.15, coefficient j going with
\* column j + 1 of the genes DataFrame.
PrintsGenesAbove(out, row) ==
    LET g == ns["genes"].cols
        c == ns["clf"].coef[row]
    IN  /\ Len(c) = Len(g) - 1
        /\ out.names = {g[j + 1] : j \in {i \in DOMAIN c : c[i] > 15}}
        /\ g[1] \notin out.names
        /\ \A j \in DOMAIN c : c[j] <= 15 => g[j + 1] \notin out.names
        /\ \A j \in DOMAIN c : c[j] > 15 => g[j + 1] \in out.names

\* C13: the genes printed for a class are exactly the predictor columns
\* whose coefficient for it in coef_ is strictly greater than 0.15 (first
\* row for class 0, last row for class 7); coefficient j is reported under
\* the name of genes column j + 1, never under the dropped first column or
\* a neighbouring gene; a coefficient of 0.15 or a negative one is not
\* printed.
GenesAboveThreshold ==
    (IsBound("clf") /\ IsBound("genes")) =>
        /\ ns["clf"].response = "Group" =>
               /\ Len(ns["clf"].coef) = 8
               /\ ns["clf"].classes[1] = 0
               /\ ns["clf"].classes[8] = 7
        /\ \A i \in DOMAIN display :
               /\ display[i].cell = 23 => PrintsGenesAbove(display[i], 1)
               /\ display[i].cell = 24 =>
                      PrintsGenesAbove(display[i], Len(ns["clf"].coef))

\* Both cells have printed for the eight-class model: a gene is printed,
\* and a gene whose coefficient is exactly 0.15 and a gene whose
\* coefficient is negative are not.
GenesPrinted ==
    /\ IsBound("clf")
    /\ ns["clf"].response = "Group"
    /\ \E i, j \in DOMAIN display :
           /\ display[i].cell = 23
           /\ display[j].cell = 24
           /\ display[i].names # {}
           /\ \E a \in DOMAIN ns["X"].cols :
                  ns["clf"].coef[1][a] = 15 /\ ns["X"].cols[a] \notin display[i].names
           /\ \E a \in DOMAIN ns["X"].cols :
                  ns["clf"].coef[8][a] < 0 /\ ns["X"].cols[a] \notin display[j].names

----------------------------------------------------------------------------
(* The PCA DataFrame (C14) *)

\* C14: the PCA DataFrame has 64 rows and four columns holding the first
\* four principal components of the subjects in component order; once
\* renamed the columns are 'c1' through 'c4', ci holding component i with
\* the values it had before; after the join the DataFrame has those four
\* columns and then Dose.Group and Time.Group, and no other.
PCADataFrameShape ==
    IsBound("pca_df") =>
        LET t == ns["pca_df"]
            joined == pc[9] = 2 \/ status[9] = "ok"
        IN  /\ DOMAIN t.rows = 1 .. 64
            /\ Len(t.cols) = (IF joined THEN 6 ELSE 4)
            /\ SubSeq(t.cols, 1, 4) =
                   (IF status[7] = "ok" THEN <<"c1", "c2", "c3", "c4">>
                    ELSE <<"0", "1", "2", "3">>)
            /\ joined => SubSeq(t.cols, 5, 6) = <<"Dose_Group", "Time_Group">>
            /\ \A p \in 1 .. 64 :
                   /\ DOMAIN t.rows[p] = SeqRange(t.cols)
                   /\ \A i \in 1 .. 4 :
                          t.rows[p][t.cols[i]] = <<"pc", SubjectAt(p), i>>

\* The DataFrame of the four components has been renamed and then joined.
RenamedThenJoined ==
    /\ IsBound("pca_df")
    /\ status[6] = "ok"
    /\ status[7] = "ok"
    /\ status[9] = "ok"
    /\ ns["pca_df"].cols = <<"c1", "c2", "c3", "c4", "Dose_Group", "Time_Group">>
    /\ ns["pca_df"].rows[64]["c4"] = <<"pc", SubjectAt(64), 4>>

============================================================================
